---- MODULE Spec2Model ----
(***************************************************************************)
(* Book catalogue explorer: the client-side query engine (filteredBooks)   *)
(* and the optimistic delete protocol of the BooksExplorer controller      *)
(* (handleDeleteBook / revalidateBooks), with the server action and the    *)
(* GET /api/books route they talk to, the BookSearch panel that sets the   *)
(* controller's query (debounced) and filters, the add-book page with its  *)
(* cover upload, and the APICache.                                         *)
(*                                                                         *)
(* Text is a sequence of character codes: 0 is the space, 2k-1 the         *)
(* lowercase and 2k the uppercase form of letter k.  An optional field is  *)
(* <<>> (undefined) or <<v>>.                                              *)
(***************************************************************************)
EXTENDS Integers, Sequences, FiniteSets, TLC

VARIABLES
    books,        \* BooksExplorer state `books` (the collection)
    isRefreshing, \* BooksExplorer state `isRefreshing`
    query,        \* BooksExplorer state `query`
    filters,      \* BooksExplorer state `filters`
    view,         \* the memoised `filteredBooks` of the last render
    calls,        \* the handleDeleteBook invocations, in invocation order
    n,            \* number of handleDeleteBook invocations so far
    fetchCount,   \* number of reconciliation fetches started so far
    serverBooks,  \* the record store behind deleteBook / getBooks
    renders,      \* number of times the page has handed another `books` array
    pageFailed,   \* Home rendered its catch branch: getBooks threw in its last render
    searchQuery,      \* BookSearch: the text of the search input
    debouncedSearch,  \* BookSearch: the value useDebounce returns
    timer,            \* the pending timeout of useDebounce, or NoTimer
    panelFilters,     \* BookSearch: its own filters state
    quiet,            \* milliseconds since the last change of the input, up to the delay
    burst,            \* changes of the input within the current debounce window, up to MaxBurst
    picked,           \* the sort option picked in the last step, or NoPick
    addPage,          \* AddBookPage with its BookCoverUpload, and the requests they wait for
    apiCache          \* the APICache instance, its clock and the get calls in progress

searchVars == <<searchQuery, debouncedSearch, timer, panelFilters, quiet, burst, picked>>

explorerVars ==
    <<books, isRefreshing, query, filters, view, calls, n, fetchCount, serverBooks, renders,
      pageFailed>>

pageVars == <<addPage, apiCache>>

vars == <<books, isRefreshing, query, filters, view, calls, n, fetchCount, serverBooks, renders,
          pageFailed,
          searchQuery, debouncedSearch, timer, panelFilters, quiet, burst, picked,
          addPage, apiCache>>

(* Bounds of the model. *)
MaxCalls == 2

MaxRenders == 1

----------------------------------------------------------------------------
(* Records and text.  Array.prototype.filter is SelectSeq.                 *)

Some(v) == <<v>>
None == <<>>

\* `x ?? d`
Coalesce(x, d) == IF x = None THEN d ELSE x[1]

\* IBook: id, title, author, price are required; the rest optional.
Book(id, title, author, price, rating, genre, isbn, publishedDate) ==
    [id |-> id, title |-> title, author |-> author, price |-> price,
     rating |-> rating, genre |-> genre, isbn |-> isbn,
     publishedDate |-> publishedDate]

\* A date string: an ISO date with its timestamp, or text Date.parse rejects.
IsoDate(ts) == [kind |-> "iso", ts |-> ts]
BadDate == [kind |-> "text", ts |-> 0]

Ids(s) == {s[i].id : i \in 1..Len(s)}

HasId(s, id) == id \in Ids(s)

\* String.prototype.toLowerCase, one character
LowerChar(c) == IF c > 0 /\ c % 2 = 0 THEN c - 1 ELSE c

toLowerCase(s) == [i \in 1..Len(s) |-> LowerChar(s[i])]

\* String.prototype.trim
RECURSIVE trimStart(_)
trimStart(s) == IF s # <<>> /\ Head(s) = 0 THEN trimStart(Tail(s)) ELSE s

RECURSIVE trimEnd(_)
trimEnd(s) ==
    IF s # <<>> /\ s[Len(s)] = 0 THEN trimEnd(SubSeq(s, 1, Len(s) - 1)) ELSE s

trim(s) == trimEnd(trimStart(s))

\* String.prototype.includes
includes(haystack, needle) ==
    \E i \in 0..(Len(haystack) - Len(needle)) :
        SubSeq(haystack, i + 1, i + Len(needle)) = needle

\* Lexicographic comparison of two sequences of numbers: -1, 0 or 1.
RECURSIVE LexCompare(_, _)
LexCompare(s, t) ==
    IF s = <<>> THEN (IF t = <<>> THEN 0 ELSE -1)
    ELSE IF t = <<>> THEN 1
    ELSE IF Head(s) < Head(t) THEN -1
    ELSE IF Head(s) > Head(t) THEN 1
    ELSE LexCompare(Tail(s), Tail(t))

\* String.prototype.localeCompare (default collation): the letters decide
\* first, a space sorting before every letter; between strings with the same
\* letters the case decides, lowercase first.
PrimaryWeights(s) == [i \in 1..Len(s) |-> (s[i] + 1) \div 2]

CaseWeights(s) == [i \in 1..Len(s) |-> IF s[i] > 0 /\ s[i] % 2 = 0 THEN 1 ELSE 0]

localeCompare(s, t) ==
    IF LexCompare(PrimaryWeights(s), PrimaryWeights(t)) # 0
    THEN LexCompare(PrimaryWeights(s), PrimaryWeights(t))
    ELSE LexCompare(CaseWeights(s), CaseWeights(t))

----------------------------------------------------------------------------
(* The query engine: BooksExplorer.filteredBooks                           *)

\* FilterOptions; an unset key holds its falsy value: genre <<>>, priceRange
\* <<>>, rating 0, sortBy "", sortOrder "".
NoFilters ==
    [genre |-> <<>>, priceRange |-> <<>>, rating |-> 0, sortBy |-> "", sortOrder |-> ""]

normalizedQuery_CaseSensitive(q) == trim(q)

normalizedQuery(q) == toLowerCase(trim(q))

haystack(b) ==
    toLowerCase(b.title \o <<0>> \o b.author \o <<0>> \o Coalesce(b.isbn, <<>>))

SearchStage(s, nq) ==
    IF nq # <<>>
    THEN LET keep(b) == includes(haystack(b), nq) IN SelectSeq(s, keep)
    ELSE s

GenreStage_CaseSensitive(s, f) ==
    IF f.genre # <<>>
    THEN LET keep(b) == Coalesce(b.genre, <<>>) = f.genre IN SelectSeq(s, keep)
    ELSE s

GenreStage(s, f) ==
    IF f.genre # <<>>
    THEN LET keep(b) == toLowerCase(Coalesce(b.genre, <<>>)) = toLowerCase(f.genre)
         IN SelectSeq(s, keep)
    ELSE s

\* Both bounds of a priceRange are numbers, so the typeof tests of lines
\* 99-100 are true and each bound is compared.
PriceStage(s, f) ==
    IF f.priceRange # <<>> /\ (f.priceRange[1] # 0 \/ f.priceRange[2] # 0)
    THEN LET keep(b) == b.price >= f.priceRange[1] /\ b.price <= f.priceRange[2]
         IN SelectSeq(s, keep)
    ELSE s

RatingStage_Above(s, f) ==
    IF f.rating # 0
    THEN LET keep(b) == Coalesce(b.rating, 0) > f.rating IN SelectSeq(s, keep)
    ELSE s

RatingStage(s, f) ==
    IF f.rating # 0
    THEN LET keep(b) == Coalesce(b.rating, 0) >= f.rating IN SelectSeq(s, keep)
    ELSE s

\* `d ? Date.parse(d) : 0`; Date.parse gives NaN for text that is no date.
DateIsNaN(d) == d # None /\ d[1].kind = "text"

DateValue(d) == IF d # None /\ d[1].kind = "iso" THEN d[1].ts ELSE 0

\* The comparator of the sort, lines 113-130.  A NaN result counts as 0 in
\* Array.prototype.sort.
Comparator(a, b, sortBy, sortOrder) ==
    LET sign == IF sortOrder = "desc" THEN -1 ELSE 1 IN
    CASE sortBy = "author" -> localeCompare(a.author, b.author) * sign
      [] sortBy = "price" -> (a.price - b.price) * sign
      [] sortBy = "rating" -> (Coalesce(a.rating, 0) - Coalesce(b.rating, 0)) * sign
      [] sortBy = "date" ->
            IF DateIsNaN(a.publishedDate) \/ DateIsNaN(b.publishedDate) THEN 0
            ELSE (DateValue(a.publishedDate) - DateValue(b.publishedDate)) * sign
      [] OTHER -> localeCompare(a.title, b.title) * sign

\* Array.prototype.sort, as V8 sorts an array shorter than 64: the leading
\* run (reversed when strictly descending) is extended by binary insertion.
\* With a consistent comparator this is the stable sort ECMAScript asks for;
\* with an inconsistent one (NaN results) the order is the engine's.
RECURSIVE RunLength(_, _, _, _, _)
RunLength(s, k, descending, sortBy, sortOrder) ==
    IF k < Len(s)
       /\ (Comparator(s[k + 1], s[k], sortBy, sortOrder) < 0) = descending
    THEN RunLength(s, k + 1, descending, sortBy, sortOrder)
    ELSE k

Reverse(s) == [i \in 1..Len(s) |-> s[Len(s) + 1 - i]]

\* Binary search for the place of pivot among w[left+1 .. right].
RECURSIVE InsertionPoint(_, _, _, _, _, _)
InsertionPoint(w, pivot, left, right, sortBy, sortOrder) ==
    IF left < right
    THEN LET mid == left + ((right - left) \div 2)
         IN IF Comparator(pivot, w[mid + 1], sortBy, sortOrder) < 0
            THEN InsertionPoint(w, pivot, left, mid, sortBy, sortOrder)
            ELSE InsertionPoint(w, pivot, mid + 1, right, sortBy, sortOrder)
    ELSE left

\* w[1 .. start] is sorted; insert w[start+1], w[start+2], ... in turn.
RECURSIVE BinaryInsertionSort(_, _, _, _)
BinaryInsertionSort(w, start, sortBy, sortOrder) ==
    IF start >= Len(w) THEN w
    ELSE LET pivot == w[start + 1]
             pos == InsertionPoint(w, pivot, 0, start, sortBy, sortOrder)
         IN BinaryInsertionSort(
                SubSeq(w, 1, pos) \o <<pivot>> \o SubSeq(w, pos + 1, start)
                    \o SubSeq(w, start + 2, Len(w)),
                start + 1, sortBy, sortOrder)

Sort(s, sortBy, sortOrder) ==
    IF Len(s) < 2 THEN s
    ELSE LET descending == Comparator(s[2], s[1], sortBy, sortOrder) < 0
             run == RunLength(s, 2, descending, sortBy, sortOrder)
             w == IF descending
                  THEN Reverse(SubSeq(s, 1, run)) \o SubSeq(s, run + 1, Len(s))
                  ELSE s
         IN BinaryInsertionSort(w, run, sortBy, sortOrder)

\* `if (filters.sortBy)`
SortApplies(f) == f.sortBy # ""

SortStage(s, f) == IF SortApplies(f) THEN Sort(s, f.sortBy, f.sortOrder) ELSE s

filteredBooks(bs, nq, f) ==
    SortStage(RatingStage(PriceStage(GenreStage(SearchStage(bs, nq), f), f), f), f)

----------------------------------------------------------------------------
(* The search panel: BookSearch and its useDebounce hook                   *)

\* useDebounce(searchQuery, 300)
DebounceDelay == 300

\* Time passes in steps of TickMs milliseconds.
TickMs == 100

MaxBurst == 3

\* The hook's pending timeout: the time left and the value it will deliver.
NoTimer == [left |-> -1, value |-> <<>>]

\* A change of the value cancels the pending timeout and starts a new one.
StartTimer(value) == [left |-> DebounceDelay, value |-> value]

TimerAfter(t, ms) ==
    IF t.left > 0 THEN [t EXCEPT !.left = IF t.left > ms THEN t.left - ms ELSE 0] ELSE t

NoPick == <<>>

SearchInit ==
    /\ searchQuery = <<>>
    /\ debouncedSearch = <<>>
    /\ timer = NoTimer
    /\ panelFilters = NoFilters
    /\ quiet = DebounceDelay
    /\ burst = 0
    /\ picked = NoPick

QueryOnInput_Immediate(q, typed) == typed

\* onChange of the search input (line 76) sets searchQuery only: the
\* controller's query is not touched.
QueryOnInput(q, typed) == q

\* The effect of lines 40-44 runs when debouncedSearch has changed.
SearchEffect(q, old, new) == IF new # old THEN new ELSE q

\* handleFilterChange, line 47: { ...filters, [key]: value }
NewFilters(f, key, value) == [f EXCEPT ![key] = value]

\* The option the sort select shows (line 197).
SelectedSort(f) ==
    << IF f.sortBy = "" THEN "title" ELSE f.sortBy,
       IF f.sortOrder = "" THEN "asc" ELSE f.sortOrder >>

\* The options of the sort select (lines 204-212).
SortOptions ==
    { <<"title", "asc">>, <<"title", "desc">>, <<"author", "asc">>,
      <<"author", "desc">>, <<"price", "asc">>, <<"price", "desc">>,
      <<"rating", "desc">>, <<"date", "desc">>, <<"date", "asc">> }

\* Values of the other controls: "" (unset) or a choice.
GenreOptions == {<<>>, <<2, 1>>}

RatingOptions == {0, 4, 3}

MinPrices == {0, 7}

MaxPrices == {0, 10}

SearchTerms == {<<>>, <<2, 0>>, <<3, 1>>}

----------------------------------------------------------------------------
(* The add-book page: AddBookPage and the BookCoverUpload it mounts.  A    *)
(* URL is a string, '' and null both "".  A message is <<>> for null or a  *)
(* tuple of its parts.  The ids, readings of Date.now(), are left out.     *)

NoImage == ""

BlobUrl == "blob:preview"

NoMessage == <<>>

\* validateFile, BookCoverUpload lines 50-63
AllowedTypes == {"image/jpeg", "image/jpg", "image/png", "image/webp"}

MaxFileSize == 5 * 1024 * 1024

validateFile(file) ==
    IF file.type \notin AllowedTypes THEN <<"Please select an image file (JPG, PNG, WebP)">>
    ELSE IF file.size > MaxFileSize THEN <<"File size must be less than 5MB">>
    ELSE NoMessage

EmptyBook ==
    [title |-> <<>>, author |-> <<>>, price |-> 0, description |-> <<>>,
     coverImage |-> NoImage]

NoUpload == <<>>

NoPut == <<>>

\* The state after the first render: the page's useState calls (lines 18-29),
\* the upload component's (lines 26-28), no request sent, nothing written.
AddBookPageInit ==
    [book |-> EmptyBook, error |-> NoMessage, isSubmitting |-> FALSE,
     isImageUploading |-> FALSE, mounted |-> TRUE,
     previewUrl |-> NoImage, isUploading |-> FALSE, uploadError |-> NoMessage,
     upload |-> NoUpload, put |-> NoPut, saved |-> <<>>]

\* page.tsx line 86
isFormDisabled(p) == p.isImageUploading \/ p.isSubmitting

\* updatePreview, BookCoverUpload lines 33-39
updatePreview(p, url) ==
    [p EXCEPT !.previewUrl = url,
              !.uploadError = IF url # NoImage THEN NoMessage ELSE @]

\* The effect of BookCoverUpload lines 42-47, run after a render
SyncPreview(p) ==
    IF p.book.coverImage # NoImage /\ p.book.coverImage # p.previewUrl
    THEN updatePreview(p, p.book.coverImage)
    ELSE p

\* parseFloat(value) || 0 of line 38; the input's text is <<>> when it does
\* not parse (NaN) and <<x>> when it parses to x
PriceOf(value) == IF value = <<>> \/ value[1] = 0 THEN 0 ELSE value[1]

\* handleImageUpload, page.tsx lines 42-50
handleImageUpload(p, imageUrl) ==
    [p EXCEPT !.book.coverImage = imageUrl, !.isImageUploading = FALSE]

\* handleImageUploadError, page.tsx lines 52-56
handleImageUploadError(p, message) ==
    [p EXCEPT !.error = <<"Image upload failed">> \o message,
              !.isImageUploading = FALSE]

----------------------------------------------------------------------------
(* The API cache: APICache over an LRUCache.  A JavaScript value is a      *)
(* record of its type and content.  The LRUCache is the list of its        *)
(* entries, most recently used first, each with its ttl and its age; an    *)
(* age stops growing once it is past the ttl.                              *)

MaxGets == 1

CacheTickMs == 150000

JsUndefined == [t |-> "undefined", num |-> 0, str |-> ""]

JsNumber(x) == [t |-> "number", num |-> x, str |-> ""]

JsString(str) == [t |-> "string", num |-> 0, str |-> str]

\* The truth test of `if (cached)`, line 24
ToBoolean(v) ==
    CASE v.t \in {"undefined", "null"} -> FALSE
      [] v.t = "number" -> v.num # 0
      [] v.t = "string" -> v.str # ""
      [] OTHER -> TRUE

DefaultMax == 100

DefaultTtl == 1000 * 60 * 5

\* An option that is undefined is <<>>.  `options.max || 100`, line 13, and
\* `options.ttl || 1000 * 60 * 5`, line 14
OptionOr(option, default) ==
    IF option = <<>> \/ option[1] = 0 THEN default ELSE option[1]

IdleGet == [pc |-> "idle", key |-> <<>>, ttl |-> <<>>, result |-> JsUndefined, invoked |-> FALSE]

GetSlots == 1..MaxGets

\* constructor, lines 11-16, with no get in progress
NewAPICache(options) ==
    [max |-> OptionOr(options.max, DefaultMax),
     ttl |-> OptionOr(options.ttl, DefaultTtl),
     entries |-> <<>>,
     gets |-> [c \in GetSlots |-> IdleGet]]

NoOptions == [max |-> <<>>, ttl |-> <<>>]

\* export const apiCache = new APICache(), line 45
APICacheInit == NewAPICache(NoOptions)

\* LRUCache: an entry with a ttl is stale once its age is past the ttl
IsStale(e) == e.ttl # 0 /\ e.age > e.ttl

IndexOfKey(entries, key) ==
    IF \E i \in 1..Len(entries) : entries[i].key = key
    THEN CHOOSE i \in 1..Len(entries) : entries[i].key = key
    ELSE 0

WithoutIndex(entries, i) ==
    SubSeq(entries, 1, i - 1) \o SubSeq(entries, i + 1, Len(entries))

\* this.cache.get(key), line 23: undefined for a missing or a stale entry (a
\* stale one is deleted), else the value, and the entry becomes the most
\* recently used
LruGet(entries, key) ==
    LET i == IndexOfKey(entries, key)
    IN IF i = 0 THEN [value |-> JsUndefined, entries |-> entries]
       ELSE IF IsStale(entries[i])
            THEN [value |-> JsUndefined, entries |-> WithoutIndex(entries, i)]
            ELSE [value |-> entries[i].value,
                  entries |-> <<entries[i]>> \o WithoutIndex(entries, i)]

\* this.cache.set(key, data, { ttl }), line 27: an undefined ttl is the
\* cache's own; setting undefined deletes the key; a new key in a full cache
\* evicts the least recently used entry
LruSet(cache, key, data, ttl) ==
    LET i == IndexOfKey(cache.entries, key)
        e == [key |-> key, value |-> data, age |-> 0,
              ttl |-> IF ttl = <<>> THEN cache.ttl ELSE ttl[1]]
    IN IF data = JsUndefined
       THEN (IF i = 0 THEN cache.entries ELSE WithoutIndex(cache.entries, i))
       ELSE IF i # 0 THEN <<e>> \o WithoutIndex(cache.entries, i)
       ELSE IF Len(cache.entries) >= cache.max
            THEN <<e>> \o SubSeq(cache.entries, 1, Len(cache.entries) - 1)
            ELSE <<e>> \o cache.entries

\* invalidate, lines 31-42; pattern is <<>> when it is not given.  keys()
\* lists the entries that are not stale.
Invalidated(entries, pattern) ==
    IF pattern # <<>> /\ pattern[1] # <<>>
    THEN SelectSeq(entries, LAMBDA e : IsStale(e) \/ ~includes(e.key, pattern[1]))
    ELSE <<>>

\* The clock moves on by ms
Aged(entries, ms) ==
    [i \in 1..Len(entries) |->
        [entries[i] EXCEPT !.age = IF @ + ms > entries[i].ttl THEN entries[i].ttl + 1
                                   ELSE @ + ms]]

----------------------------------------------------------------------------
(* The delete protocol: BooksExplorer.handleDeleteBook / revalidateBooks   *)

\* The collection the page was loaded with, and a record another client has
\* added to the store since.
InitialBooks ==
    << Book(1, <<3, 1>>, <<2, 5>>, 10, Some(4), Some(<<2, 1>>), Some(<<1>>), Some(IsoDate(5))),
       Book(2, <<1, 3>>, <<4, 1>>, 0, None, None, None, None),
       Book(3, <<5>>, <<1, 1>>, 10, Some(2), Some(<<1, 1>>), None, Some(IsoDate(-3))) >>

ExtraBook == Book(4, <<1, 3>>, <<3>>, 7, Some(5), None, None, Some(BadDate))

\* What the store's deleteBook can throw (docs/API.md, the error responses).
StoreReasons == {"Book not found", "Internal Server Error"}

NoResult == [thrown |-> "", success |-> FALSE, error |-> ""]
NoResponse == [status |-> "none", data |-> <<>>]

IdleCall ==
    [id |-> 0, pc |-> "idle", originalBooks |-> <<>>, result |-> NoResult,
     response |-> NoResponse, error |-> "",
     \* history of the call, for stating the properties
     invoked |-> <<>>, storeReason |-> "", changes |-> 0, overlapped |-> FALSE,
     disturbed |-> FALSE, rolledBack |-> FALSE, reconciled |-> FALSE, fetchSeq |-> 0,
     rendersBefore |-> 0,
     \* the component that runs the call has been unmounted: its setState
     \* calls change nothing
     unmounted |-> FALSE,
     \* the store's list before the call's remote delete ran, once it has
     stored |-> <<>>]

Calls == 1..MaxCalls

\* The remote delete of call c has not resolved yet.
DeletePending(c) == calls[c].pc \in {"sent", "answered"}

\* The reconciliation fetch of call c is in flight.
FetchInFlight(c) == calls[c].pc \in {"fetching", "fetched"}

\* handleDeleteBook has been invoked and has neither resolved nor rejected.
InFlight(c) == DeletePending(c) \/ FetchInFlight(c)

\* The component that runs call c is the mounted one.
Mounted(c) == ~calls[c].unmounted

\* BookGridNew renders skeletons instead of cards while `loading`.
CardIds == IF isRefreshing THEN {} ELSE Ids(view)

\* The cards whose delete button is enabled.  `deleting` is state of the
\* mounted card: the card whose handleDelete set it is unmounted by the
\* removal of the same render, and a card mounted anew starts with false.
DeleteEnabled(id) == id \in CardIds

\* The array the derivation's sort call reorders is `result` when sorted in
\* place; `result` is the collection itself as long as no filter stage ran.
CollectionAfterDerive_SortInPlace(bs, nq, f) ==
    IF SortApplies(f)
       /\ nq = <<>> /\ f.genre = <<>> /\ f.rating = 0
       /\ ~(f.priceRange # <<>> /\ (f.priceRange[1] # 0 \/ f.priceRange[2] # 0))
    THEN Sort(bs, f.sortBy, f.sortOrder)
    ELSE bs

\* The collection after a derivation: every stage builds a new array
\* (Array.filter, lines 82-108) and the sort runs on a copy, `[...result]`
\* (line 113), so the array held in `books` is left as it is.
CollectionAfterDerive(bs, nq, f) == bs

MemoDeps_WithoutBooks(bs, q, f) == <<normalizedQuery(q), f>>

\* The dependencies of the memoised view (line 134).
MemoDeps(bs, q, f) == <<bs, normalizedQuery(q), f>>

\* The memoised view is recomputed with the render that follows a change of
\* one of its dependencies.
Render ==
    view' = IF MemoDeps(books', query', filters') # MemoDeps(books, query, filters)
            THEN filteredBooks(books', normalizedQuery(query'), filters')
            ELSE view

\* totalResults={filteredBooks.length} (line 141)
totalResults == Len(view)

\* line 31: prevBooks.filter(book => book.id !== id)
OptimisticRemove_Deferred(bs, id) == bs

OptimisticRemove(bs, id) == LET keep(b) == b.id # id IN SelectSeq(bs, keep)

Snapshot_AfterRemoval(bs, id) == OptimisticRemove(bs, id)

\* line 30: const originalBooks = books
Snapshot(bs, id) == bs

Changed(old, new) == IF old # new THEN 1 ELSE 0

\* BookCard.handleDelete -> handleDeleteBook(id), up to its first await.
StartDelete(id) ==
    /\ n < MaxCalls
    /\ id \in CardIds
    /\ LET c == n + 1
           after == OptimisticRemove(books, id)
           overlap == \E d \in Calls : InFlight(d)
       IN /\ books' = after
          /\ calls' = [d \in Calls |->
                IF d = c
                THEN [IdleCall EXCEPT !.id = id, !.pc = "sent",
                                      !.originalBooks = Snapshot(books, id),
                                      !.invoked = books,
                                      !.changes = Changed(books, after),
                                      !.overlapped = overlap,
                                      !.rendersBefore = renders]
                ELSE IF InFlight(d) THEN [calls[d] EXCEPT !.overlapped = TRUE]
                ELSE calls[d]]
          /\ n' = c
    /\ UNCHANGED <<pageVars, renders, pageFailed>>
    /\ UNCHANGED <<isRefreshing, query, filters, fetchCount, serverBooks>>
    /\ UNCHANGED searchVars
    /\ Render

\* deleteBookAction, lines 5-13: what it returns when the store's deleteBook
\* throws `reason` ("" when it does not throw).
deleteBookAction(reason) ==
    IF reason = ""
    THEN [thrown |-> "", success |-> TRUE, error |-> ""]
    ELSE [thrown |-> "", success |-> FALSE, error |-> "Failed to delete book"]

\* The store's delete by key (docs/DEPLOYMENT.md, deleteBook.js).
StoreDelete(store, id) == LET keep(b) == b.id # id IN SelectSeq(store, keep)

\* The server runs deleteBookAction(id): the store deletes the record, or throws.
RemoteDeleteRuns(c) ==
    /\ calls[c].pc = "sent"
    /\ \E reason \in StoreReasons \cup {""} :
          /\ calls' = [calls EXCEPT ![c].pc = "answered",
                                    ![c].result = deleteBookAction(reason),
                                    ![c].storeReason = reason,
                                    ![c].stored = Some(serverBooks)]
          /\ serverBooks' = IF reason = "" THEN StoreDelete(serverBooks, calls[c].id)
                            ELSE serverBooks
    /\ UNCHANGED <<pageVars, renders, pageFailed>>
    /\ UNCHANGED <<books, isRefreshing, query, filters, view, n, fetchCount>>
    /\ UNCHANGED searchVars

\* The call of the server action itself fails (the request never reaches the
\* server, or the dynamic import rejects): the await throws.
RemoteDeleteThrows(c) ==
    /\ calls[c].pc = "sent"
    /\ calls' = [calls EXCEPT ![c].pc = "answered",
                              ![c].result = [NoResult EXCEPT !.thrown = "Network error"]]
    /\ UNCHANGED <<pageVars, renders, pageFailed>>
    /\ UNCHANGED <<books, isRefreshing, query, filters, view, n, fetchCount, serverBooks>>
    /\ UNCHANGED searchVars

HandlerRollsBack_Always(deleteSucceeded) == TRUE

\* lines 38-42 and 46-50: the handler rolls back iff the delete did not succeed.
HandlerRollsBack(deleteSucceeded) == ~deleteSucceeded

\* line 41: new Error(result.error || 'Delete failed'); line 50: throw error.
RejectionReason(result) ==
    IF result.thrown # "" THEN result.thrown
    ELSE IF result.error # "" THEN result.error
    ELSE "Delete failed"

\* A rollback that puts the snapshot back in front of the current records.
Rollback_Prepend(current, original, id) == original \o current

\* A rollback that puts back only the deleted record.
Rollback_RestoreRecord(current, original, id) ==
    LET mine(b) == b.id = id IN current \o SelectSeq(original, mine)

\* lines 40 and 49: setBooks(originalBooks)
Rollback(current, original, id) == original

\* Every other call whose remote delete is pending sees the collection
\* replaced (c is 0 when it is no call that replaces it).
Disturb(cs, c) ==
    [d \in Calls |-> IF d # c /\ cs[d].pc \in {"sent", "answered"}
                     THEN [cs[d] EXCEPT !.disturbed = TRUE] ELSE cs[d]]

\* The await of deleteBookAction resolves with a failure or throws: rollback
\* and rethrow (lines 38-42, 46-51).
DeleteFails(c) ==
    /\ calls[c].pc = "answered"
    /\ LET r == calls[c].result
           ok == r.thrown = "" /\ r.success
           after == Rollback(books, calls[c].originalBooks, calls[c].id)
           done == [calls EXCEPT ![c].pc = "rejected",
                                 ![c].error = RejectionReason(r),
                                 ![c].rolledBack = TRUE]
       IN /\ HandlerRollsBack(ok)
          /\ books' = IF calls[c].unmounted THEN books ELSE after
          /\ calls' = IF calls[c].unmounted THEN done
                      ELSE Disturb([done EXCEPT ![c].changes = @ + Changed(books, after)], c)
    /\ UNCHANGED <<pageVars, renders, pageFailed>>
    /\ UNCHANGED <<isRefreshing, query, filters, n, fetchCount, serverBooks>>
    /\ UNCHANGED searchVars
    /\ Render

\* The await of deleteBookAction resolves with success: revalidateBooks starts
\* (lines 45, 56-65).
DeleteSucceeds(c) ==
    /\ calls[c].pc = "answered"
    /\ calls[c].result.thrown = "" /\ calls[c].result.success
    /\ isRefreshing' = IF calls[c].unmounted THEN isRefreshing ELSE TRUE
    /\ fetchCount' = fetchCount + 1
    /\ calls' = [calls EXCEPT ![c].pc = "fetching", ![c].fetchSeq = fetchCount + 1]
    /\ UNCHANGED <<pageVars, renders, pageFailed>>
    /\ UNCHANGED <<books, query, filters, view, n, serverBooks>>
    /\ UNCHANGED searchVars

\* GET /api/books, route lines 229-240: the store's list with status 200, or
\* status 500 when getBooks throws; or the fetch itself throws.
FetchOutcomes ==
    { [status |-> "ok", data |-> serverBooks],
      [status |-> "error", data |-> <<>>],
      [status |-> "throw", data |-> <<>>] }

ServeFetch(c) ==
    /\ calls[c].pc = "fetching"
    /\ \E resp \in FetchOutcomes :
          calls' = [calls EXCEPT ![c].pc = "fetched", ![c].response = resp]
    /\ UNCHANGED <<pageVars, renders, pageFailed>>
    /\ UNCHANGED <<books, isRefreshing, query, filters, view, n, fetchCount, serverBooks>>
    /\ UNCHANGED searchVars

\* A reconciliation without the response.ok check.
Revalidated_Unchecked(current, resp, c) == resp.data

\* A reconciliation that drops a response older than one already applied.
Revalidated_IgnoreStale(current, resp, c) ==
    IF resp.status = "ok"
       /\ ~\E d \in Calls : /\ calls[d].pc = "resolved"
                            /\ calls[d].response.status = "ok"
                            /\ calls[d].fetchSeq > calls[c].fetchSeq
    THEN resp.data ELSE current

\* A reconciliation merged into the local value instead of replacing it.
Revalidated_Merge(current, resp, c) ==
    IF resp.status = "ok"
    THEN LET known(b) == HasId(resp.data, b.id) IN SelectSeq(current, known)
    ELSE current

\* lines 67-70: if (response.ok) setBooks(freshBooks.data || [])
\* (the route always sends a `data` array, so `|| []` changes nothing)
Revalidated(current, resp, c) == IF resp.status = "ok" THEN resp.data ELSE current

RefreshingAfterFetch_NeverCleared(resp) == TRUE

RefreshingAfterFetch_NoFinally(resp) == resp.status # "ok"

\* lines 73-75: finally { setIsRefreshing(false) }
RefreshingAfterFetch(resp) == FALSE

\* The fetch of revalidateBooks settles; revalidateBooks returns and with it
\* handleDeleteBook (lines 67-75, 45-52).
FetchSettles(c) ==
    /\ calls[c].pc = "fetched"
    /\ LET resp == calls[c].response
           fresh == Revalidated(books, resp, c)
           undo == HandlerRollsBack(TRUE)
           after == IF undo THEN Rollback(fresh, calls[c].originalBooks, calls[c].id)
                    ELSE fresh
           done == [calls EXCEPT ![c].pc = IF undo THEN "rejected" ELSE "resolved",
                                 ![c].reconciled = (resp.status = "ok"),
                                 ![c].rolledBack = undo]
           seen == [done EXCEPT ![c].changes = @ + Changed(books, fresh)
                                                 + Changed(fresh, after)]
       IN /\ books' = IF calls[c].unmounted THEN books ELSE after
          /\ calls' = IF calls[c].unmounted THEN done
                      ELSE IF after # books \/ resp.status = "ok" THEN Disturb(seen, c)
                      ELSE seen
    /\ isRefreshing' = IF calls[c].unmounted THEN isRefreshing
                       ELSE RefreshingAfterFetch(calls[c].response)
    /\ UNCHANGED <<pageVars, renders, pageFailed>>
    /\ UNCHANGED <<query, filters, n, fetchCount, serverBooks>>
    /\ UNCHANGED searchVars
    /\ Render

\* The lists getBooks can return when Home is rendered again (part_004,
\* lines 9-11): every list the store has held since the page was loaded,
\* that is the list the page was loaded with, the store's list as it is,
\* and the list each remote delete found.
PageLists ==
    {InitialBooks, serverBooks}
        \cup {calls[c].stored[1] : c \in {d \in Calls : calls[d].stored # None}}

\* The lists the store can hold: the records of the page and the added one,
\* less the deleted ones.
StoreLists ==
    LET all == Append(InitialBooks, ExtraBook)
    IN { SelectSeq(all, LAMBDA b : b.id \in kept) : kept \in SUBSET Ids(all) }

\* What Home hands as the `books` prop: the list getBooks returned (line
\* 28), or `[]` from its catch branch (line 57).
HandedLists(failed) == IF failed THEN {<<>>} ELSE PageLists

\* Home is rendered again in the same branch as before: the mounted
\* BooksExplorer receives another `books` array, and the effect of lines
\* 21-23 replaces the collection by it, whatever calls are in flight.
PropsChange(initialBooks) ==
    /\ renders < MaxRenders
    /\ initialBooks \in HandedLists(pageFailed)
    /\ renders' = renders + 1
    /\ books' = initialBooks
    /\ calls' = Disturb(calls, 0)
    /\ UNCHANGED <<pageVars, pageFailed>>
    /\ UNCHANGED <<isRefreshing, query, filters, n, fetchCount, serverBooks>>
    /\ UNCHANGED searchVars
    /\ Render

\* The calls in flight belong to a component that is unmounted.
Unmounted(cs) ==
    [d \in Calls |-> IF cs[d].pc \in {"sent", "answered", "fetching", "fetched"}
                     THEN [cs[d] EXCEPT !.unmounted = TRUE] ELSE cs[d]]

\* Home is rendered again in its other branch (getBooks throws after it
\* returned, or returns after it threw): the BooksExplorer of lines 28 and
\* 57 are at different places of the tree, so the mounted one is unmounted
\* and another is mounted with the initial state of lines 14-17, and
\* BookSearch with it.
Remount(initialBooks) ==
    /\ renders < MaxRenders
    /\ initialBooks \in HandedLists(~pageFailed)
    /\ renders' = renders + 1
    /\ pageFailed' = ~pageFailed
    /\ books' = initialBooks
    /\ isRefreshing' = FALSE
    /\ query' = <<>>
    /\ filters' = NoFilters
    /\ view' = filteredBooks(books', normalizedQuery(query'), filters')
    /\ calls' = Unmounted(Disturb(calls, 0))
    /\ searchQuery' = <<>>
    /\ debouncedSearch' = <<>>
    /\ timer' = NoTimer
    /\ panelFilters' = NoFilters
    /\ quiet' = DebounceDelay
    /\ burst' = 0
    /\ picked' = NoPick
    /\ UNCHANGED pageVars
    /\ UNCHANGED <<n, fetchCount, serverBooks>>

\* The page as it was loaded: with the store's list of that moment, or
\* with `[]` when getBooks threw.
Init ==
    /\ pageFailed \in BOOLEAN
    /\ books = IF pageFailed THEN <<>> ELSE InitialBooks
    /\ isRefreshing = FALSE
    /\ query = <<>>
    /\ filters = NoFilters
    /\ view = filteredBooks(books, normalizedQuery(query), filters)
    /\ calls = [c \in Calls |-> IdleCall]
    /\ n = 0
    /\ fetchCount = 0
    /\ renders = 0
    /\ SearchInit
    /\ serverBooks \in {InitialBooks, Append(InitialBooks, ExtraBook)}
    /\ addPage = AddBookPageInit
    /\ apiCache = APICacheInit

Next ==
    \/ \E id \in Ids(InitialBooks) \cup {ExtraBook.id} : StartDelete(id)
    \/ \E c \in Calls : RemoteDeleteRuns(c)
    \/ \E c \in Calls : RemoteDeleteThrows(c)
    \/ \E c \in Calls : DeleteFails(c)
    \/ \E c \in Calls : DeleteSucceeds(c)
    \/ \E c \in Calls : ServeFetch(c)
    \/ \E c \in Calls : FetchSettles(c)
    \/ \E initialBooks \in StoreLists : PropsChange(initialBooks)
    \/ \E initialBooks \in StoreLists : Remount(initialBooks)

Spec == Init /\ [][Next]_vars

\* The delete protocol when every request is answered: as long as a call is
\* waiting for its server action, its fetch or the continuation of an
\* answered await, one of these steps is eventually taken.
Responds ==
    \E c \in Calls :
        \/ RemoteDeleteRuns(c) \/ RemoteDeleteThrows(c)
        \/ DeleteFails(c) \/ DeleteSucceeds(c)
        \/ ServeFetch(c) \/ FetchSettles(c)

\* The page loaded from the store as it is.
InitLive == Init /\ serverBooks = InitialBooks

SpecLive == InitLive /\ [][Next]_vars /\ WF_vars(Responds)

----------------------------------------------------------------------------
(* The query engine on its own: collections and query specs drawn from     *)
(* bounded sets, onSearch / onFilter applied to them.                       *)

MaxLen == 4

\* A fifth record, sharing author, rating and date with record 1, and costly.
FifthBook == Book(5, <<3, 3>>, <<2, 5>>, 1200, Some(4), Some(<<3>>), Some(<<3, 1>>), Some(IsoDate(5)))

Catalogue == InitialBooks \o <<ExtraBook, FifthBook>>

RECURSIVE SeqsUpTo(_, _)
SeqsUpTo(S, k) ==
    IF k = 0 THEN {<<>>}
    ELSE LET shorter == SeqsUpTo(S, k - 1)
         IN shorter \cup {Append(s, x) : s \in shorter, x \in S}

\* Collections of at most MaxLen records with pairwise distinct ids.
Collections ==
    {s \in SeqsUpTo({Catalogue[i] : i \in 1..Len(Catalogue)}, MaxLen) :
        Cardinality(Ids(s)) = Len(s)}

Queries == {<<>>, <<0>>, <<2, 0>>, <<3, 1>>, <<1, 0, 2>>}

\* The structured filters, one at a time.
FilterParts ==
    { NoFilters,
      [NoFilters EXCEPT !.genre = <<1, 1>>],
      [NoFilters EXCEPT !.genre = <<1, 2>>],
      [NoFilters EXCEPT !.priceRange = <<0, 10>>],
      [NoFilters EXCEPT !.priceRange = <<8, 999>>],
      [NoFilters EXCEPT !.priceRange = <<0, 0>>],
      [NoFilters EXCEPT !.rating = 3],
      [NoFilters EXCEPT !.rating = 4] }

SortChoices ==
    ({"title", "author", "price", "rating", "date"} \X {"asc", "desc"})
        \cup {<<"", "">>, <<"", "desc">>, <<"title", "">>}

\* Every filter alone, every sort alone, and all stages together.
FilterChoices ==
    FilterParts
        \cup {[NoFilters EXCEPT !.sortBy = s[1], !.sortOrder = s[2]] : s \in SortChoices}
        \cup {[genre |-> <<1, 1>>, priceRange |-> <<0, 10>>, rating |-> 3,
               sortBy |-> "price", sortOrder |-> "desc"]}

\* BookSearch's onSearch = setQuery (line 139)
OnSearch(q) ==
    /\ query' = q
    /\ UNCHANGED <<pageVars, renders, pageFailed>>
    /\ UNCHANGED <<isRefreshing, filters, calls, n, fetchCount, serverBooks>>
    /\ UNCHANGED searchVars
    /\ books' = CollectionAfterDerive(books, normalizedQuery(query'), filters')
    /\ Render

\* BookSearch's onFilter = setFilters (line 140)
OnFilter(f) ==
    /\ filters' = f
    /\ UNCHANGED <<pageVars, renders, pageFailed>>
    /\ UNCHANGED <<isRefreshing, query, calls, n, fetchCount, serverBooks>>
    /\ UNCHANGED searchVars
    /\ books' = CollectionAfterDerive(books, normalizedQuery(query'), filters')
    /\ Render

InitView ==
    /\ books \in Collections
    /\ isRefreshing = FALSE
    /\ query = <<>>
    /\ filters = NoFilters
    /\ view = filteredBooks(books, normalizedQuery(query), filters)
    /\ calls = [c \in Calls |-> IdleCall]
    /\ n = 0
    /\ fetchCount = 0
    /\ renders = 0
    /\ pageFailed = FALSE
    /\ SearchInit
    /\ serverBooks = books
    /\ addPage = AddBookPageInit
    /\ apiCache = APICacheInit

NextView ==
    \/ \E q \in Queries : OnSearch(q)
    \/ \E f \in FilterChoices : OnFilter(f)

SpecView == InitView /\ [][NextView]_vars

----------------------------------------------------------------------------
(* The search panel driving the controller: typing, the debounce timer,    *)
(* and the filter controls.  The panel's visibility toggle changes nothing *)
(* of this state.                                                          *)

\* The input's onChange (line 76) and its clear button (line 82).  The hook
\* restarts its timeout for the new value.
TypeSearch(q) ==
    /\ q # searchQuery
    /\ searchQuery' = q
    /\ timer' = StartTimer(q)
    /\ quiet' = 0
    /\ burst' = IF timer = NoTimer THEN 1
                ELSE IF burst < MaxBurst THEN burst + 1 ELSE burst
    /\ picked' = NoPick
    /\ query' = QueryOnInput(query, q)
    /\ UNCHANGED <<pageVars, renders, pageFailed>>
    /\ UNCHANGED <<isRefreshing, filters, calls, n, fetchCount, serverBooks,
                   debouncedSearch, panelFilters>>
    /\ books' = CollectionAfterDerive(books, normalizedQuery(query'), filters')
    /\ Render

\* TickMs milliseconds pass; a timeout that is due runs first.
Tick ==
    /\ timer.left # 0
    /\ timer.left > 0 \/ quiet < DebounceDelay
    /\ timer' = TimerAfter(timer, TickMs)
    /\ quiet' = IF quiet + TickMs < DebounceDelay THEN quiet + TickMs ELSE DebounceDelay
    /\ picked' = NoPick
    /\ UNCHANGED <<pageVars, renders, pageFailed>>
    /\ UNCHANGED <<books, isRefreshing, query, filters, view, calls, n, fetchCount,
                   serverBooks, searchQuery, debouncedSearch, panelFilters, burst>>

\* The timeout runs: the hook's value becomes the pending one, and the
\* effect of lines 40-44 hands it to onSearch = setQuery.
TimerFires ==
    /\ timer.left = 0
    /\ debouncedSearch' = timer.value
    /\ timer' = NoTimer
    /\ query' = SearchEffect(query, debouncedSearch, debouncedSearch')
    /\ picked' = NoPick
    /\ UNCHANGED <<pageVars, renders, pageFailed>>
    /\ UNCHANGED <<isRefreshing, filters, calls, n, fetchCount, serverBooks,
                   searchQuery, panelFilters, quiet, burst>>
    /\ books' = CollectionAfterDerive(books, normalizedQuery(query'), filters')
    /\ Render

\* handleFilterChange(key, value), lines 46-52
HandleFilterChange(key, value) ==
    /\ panelFilters' = NewFilters(panelFilters, key, value)
    /\ filters' = NewFilters(panelFilters, key, value)
    /\ picked' = NoPick
    /\ UNCHANGED <<pageVars, renders, pageFailed>>
    /\ UNCHANGED <<isRefreshing, query, calls, n, fetchCount, serverBooks,
                   searchQuery, debouncedSearch, timer, quiet, burst>>
    /\ books' = CollectionAfterDerive(books, normalizedQuery(query'), filters')
    /\ Render

\* line 139
PickGenre(g) ==
    /\ g # panelFilters.genre
    /\ HandleFilterChange("genre", g)

\* line 185
PickRating(r) ==
    /\ r # panelFilters.rating
    /\ HandleFilterChange("rating", r)

\* The number a price input shows (lines 157, 170): '' for an unset or zero
\* bound, so that 0 is never the text shown.
ShownBound(f, i) == IF f.priceRange # <<>> THEN f.priceRange[i] ELSE 0

\* lines 158-162: the other bound is the range's, or 999
RangeForMin(f, min) ==
    IF min # 0 THEN <<min, IF ShownBound(f, 2) # 0 THEN ShownBound(f, 2) ELSE 999>> ELSE <<>>

\* lines 171-175: the other bound is the range's, or 0
RangeForMax(f, max) ==
    IF max # 0 THEN <<ShownBound(f, 1), max>> ELSE <<>>

\* onChange of the Min input: the text typed differs from the text shown.
\* The text '0' can be typed whatever is shown.
EnterMinPrice(min) ==
    /\ min = 0 \/ min # ShownBound(panelFilters, 1)
    /\ HandleFilterChange("priceRange", RangeForMin(panelFilters, min))

\* onChange of the Max input, likewise
EnterMaxPrice(max) ==
    /\ max = 0 \/ max # ShownBound(panelFilters, 2)
    /\ HandleFilterChange("priceRange", RangeForMax(panelFilters, max))

\* The sort select's onChange, lines 198-202: two calls of
\* handleFilterChange in one event.  Both read the filters of the render the
\* handler belongs to; each sets the panel's and the controller's filters,
\* and the second call's values are the ones that stay.
PickSort(option) ==
    LET first == NewFilters(panelFilters, "sortBy", option[1])
        second == NewFilters(panelFilters, "sortOrder", option[2])
    IN /\ option # SelectedSort(panelFilters)
       /\ panelFilters' = second
       /\ filters' = second
       /\ picked' = option
       /\ UNCHANGED <<pageVars, renders, pageFailed>>
       /\ UNCHANGED <<isRefreshing, query, calls, n, fetchCount, serverBooks,
                      searchQuery, debouncedSearch, timer, quiet, burst>>
       /\ books' = CollectionAfterDerive(books, normalizedQuery(query'), filters')
       /\ Render

\* clearFilters, lines 54-59
ClearFilters ==
    /\ panelFilters # NoFilters
    /\ panelFilters' = NoFilters
    /\ filters' = NoFilters
    /\ picked' = NoPick
    /\ UNCHANGED <<pageVars, renders, pageFailed>>
    /\ UNCHANGED <<isRefreshing, query, calls, n, fetchCount, serverBooks,
                   searchQuery, debouncedSearch, timer, quiet, burst>>
    /\ books' = CollectionAfterDerive(books, normalizedQuery(query'), filters')
    /\ Render

InitSearch ==
    /\ books = Catalogue
    /\ isRefreshing = FALSE
    /\ query = <<>>
    /\ filters = NoFilters
    /\ view = filteredBooks(books, normalizedQuery(query), filters)
    /\ calls = [c \in Calls |-> IdleCall]
    /\ n = 0
    /\ fetchCount = 0
    /\ renders = 0
    /\ pageFailed = FALSE
    /\ serverBooks = books
    /\ SearchInit
    /\ addPage = AddBookPageInit
    /\ apiCache = APICacheInit

NextSearch ==
    \/ \E q \in SearchTerms : TypeSearch(q)
    \/ Tick
    \/ TimerFires
    \/ \E g \in GenreOptions : PickGenre(g)
    \/ \E r \in RatingOptions : PickRating(r)
    \/ \E v \in MinPrices : EnterMinPrice(v)
    \/ \E v \in MaxPrices : EnterMaxPrice(v)
    \/ \E o \in SortOptions : PickSort(o)
    \/ ClearFilters

SpecSearch == InitSearch /\ [][NextSearch]_vars

----------------------------------------------------------------------------
(* The add-book page at work: the user edits the fields, picks or removes  *)
(* a cover file, submits or leaves; POST /api/upload answers; the server   *)
(* runs putBookInDB and its answer reaches the page, or is lost.  Once the *)
(* page is left its setState calls change nothing.                         *)

MaxSaved == 2

Files ==
    { [type |-> "image/png", size |-> 1024],
      [type |-> "image/gif", size |-> 1024],
      [type |-> "image/png", size |-> MaxFileSize + 1] }

UploadedUrls == {"https://cdn/cover-1", "https://cdn/cover-2"}

FieldNames == {"title", "author", "price", "description"}

FieldInputs == {<<>>, <<1>>}

\* handleChange, page.tsx lines 32-40
handleChange(p, name, value) ==
    [p EXCEPT !.book[name] = IF name = "price" THEN PriceOf(value) ELSE value]

\* An input's onChange; a disabled input takes no typing.
ChangeField(name, value) ==
    /\ addPage.mounted
    /\ ~isFormDisabled(addPage)
    /\ handleChange(addPage, name, value) # addPage
    /\ addPage' = SyncPreview(handleChange(addPage, name, value))
    /\ UNCHANGED <<explorerVars, searchVars, apiCache>>

\* handleFileSelect (lines 134-137) and handleFileUpload (lines 66-131) up to
\* its await: a rejected file reports the error, an accepted one shows the
\* local preview and sends the request.  The request remembers the
\* currentImage of the render it was sent from.  A file is picked through
\* the upload area (click or drop, lines 282-294), which is rendered only
\* while no preview is shown (line 224); the file input itself is hidden.
SelectFile(file) ==
    LET cleared == [addPage EXCEPT !.uploadError = NoMessage]
        validationError == validateFile(file)
        refused == handleImageUploadError(
                       [cleared EXCEPT !.uploadError = validationError], validationError)
        sent == [updatePreview(cleared, BlobUrl) EXCEPT
                    !.isUploading = TRUE,
                    !.upload = <<[currentImage |-> addPage.book.coverImage]>>]
    IN /\ addPage.mounted
       /\ addPage.previewUrl = NoImage
       /\ ~(isFormDisabled(addPage) \/ addPage.isUploading)
       /\ addPage' = SyncPreview(IF validationError # NoMessage THEN refused ELSE sent)
       /\ UNCHANGED <<explorerVars, searchVars, apiCache>>

\* The upload answers with a URL: lines 105-110 and the finally of line 128
UploadResolves(imageUrl) ==
    LET shown == handleImageUpload(updatePreview(addPage, imageUrl), imageUrl)
        done == [shown EXCEPT !.isUploading = FALSE, !.upload = NoUpload]
    IN /\ addPage.upload # NoUpload
       /\ addPage' = IF addPage.mounted THEN SyncPreview(done)
                     ELSE [addPage EXCEPT !.upload = NoUpload]
       /\ UNCHANGED <<explorerVars, searchVars, apiCache>>

\* The upload fails: the catch of lines 112-127 and the finally
UploadRejects ==
    LET message == <<"Upload failed">>
        reported == handleImageUploadError(
                        [addPage EXCEPT !.uploadError = message], message)
        back == updatePreview(reported, addPage.upload[1].currentImage)
        done == [back EXCEPT !.isUploading = FALSE, !.upload = NoUpload]
    IN /\ addPage.upload # NoUpload
       /\ addPage' = IF addPage.mounted THEN SyncPreview(done)
                     ELSE [addPage EXCEPT !.upload = NoUpload]
       /\ UNCHANGED <<explorerVars, searchVars, apiCache>>

\* removeImage, lines 173-193; its button (lines 250-252) is shown with a
\* preview and disabled during an upload
RemoveImage ==
    LET cleared == [updatePreview(addPage, NoImage) EXCEPT !.uploadError = NoMessage]
    IN /\ addPage.mounted
       /\ addPage.previewUrl # NoImage
       /\ ~(isFormDisabled(addPage) \/ addPage.isUploading)
       /\ addPage' = SyncPreview(handleImageUpload(cleared, NoImage))
       /\ UNCHANGED <<explorerVars, searchVars, apiCache>>

\* onError of the preview image, lines 231-238: reported unless the preview
\* is the local blob URL
PreviewFails ==
    /\ addPage.mounted
    /\ addPage.previewUrl # NoImage
    /\ addPage' = IF addPage.previewUrl # BlobUrl
                  THEN [addPage EXCEPT !.uploadError =
                            <<"Failed to load image preview", addPage.previewUrl>>]
                  ELSE addPage
    /\ UNCHANGED <<explorerVars, searchVars, apiCache>>

\* onLoad of the preview image, lines 239-242
PreviewLoads ==
    /\ addPage.mounted
    /\ addPage.previewUrl # NoImage
    /\ addPage' = [addPage EXCEPT !.uploadError = NoMessage]
    /\ UNCHANGED <<explorerVars, searchVars, apiCache>>

\* handleSubmit up to its await, page.tsx lines 58-71.  The submit button is
\* enabled and the required inputs are filled in.  The request carries the
\* book of the render it was sent from; the server has not answered it yet
\* (answer 0).
HandleSubmit ==
    /\ Len(addPage.saved) < MaxSaved
    /\ addPage.mounted
    /\ ~isFormDisabled(addPage)
    /\ addPage.book.title # <<>> /\ addPage.book.author # <<>>
    /\ addPage' = [addPage EXCEPT !.isSubmitting = TRUE, !.error = NoMessage,
                                  !.put = <<[data |-> addPage.book, answer |-> 0]>>]
    /\ UNCHANGED <<explorerVars, searchVars, apiCache>>

\* The server runs putBookInDB (actions.ts lines 11-14): the store's put
\* (docs/DEPLOYMENT.md, putBook.js, lines 249-304) refuses a record with an
\* empty title, author or description or a price of 0 with status 400 and
\* writes nothing; it writes the Item of the other records, which has no
\* coverImage, with status 200, or fails to with status 500.  The page has
\* not received the answer yet.
PutBookInDB(status) ==
    LET book == addPage.put[1].data
        valid == /\ book.title # <<>> /\ book.author # <<>>
                 /\ book.price # 0 /\ book.description # <<>>
        Item == [title |-> book.title, author |-> book.author,
                 price |-> book.price, description |-> book.description]
    IN /\ addPage.put # NoPut
       /\ addPage.put[1].answer = 0
       /\ status \in (IF valid THEN {200, 500} ELSE {400})
       /\ addPage' = [addPage EXCEPT
                         !.saved = IF status = 200 THEN Append(@, Item) ELSE @,
                         !.put[1].answer = status]
       /\ UNCHANGED <<explorerVars, searchVars, apiCache>>

\* The await of putBookInDB resolves with the server's answer: lines 72-76
\* and the finally; the page does not look at the result, and router.push
\* leaves the page.  On a page already left no state changes.  Whether
\* putBook of lib/data returns or throws on a status other than 200 is not
\* in the sources: the await may resolve or throw on every answer.
PutResolves ==
    /\ addPage.put # NoPut
    /\ addPage.put[1].answer # 0
    /\ addPage' = [addPage EXCEPT !.book = IF addPage.mounted THEN EmptyBook ELSE @,
                                  !.isSubmitting = IF addPage.mounted THEN FALSE ELSE @,
                                  !.mounted = FALSE,
                                  !.put = NoPut]
    /\ UNCHANGED <<explorerVars, searchVars, apiCache>>

\* The await of putBookInDB throws (the request does not reach the server,
\* putBook throws, or the answer is lost after the server ran): the catch
\* of lines 77-79 and the finally
PutRejects ==
    /\ addPage.put # NoPut
    /\ addPage' = IF addPage.mounted
                  THEN [addPage EXCEPT !.error = <<"Failed to add book", "Unknown error">>,
                                       !.isSubmitting = FALSE, !.put = NoPut]
                  ELSE [addPage EXCEPT !.put = NoPut]
    /\ UNCHANGED <<explorerVars, searchVars, apiCache>>

\* The Back button of the header, lines 99-106: router.back()
GoBack ==
    /\ addPage.mounted
    /\ addPage' = [addPage EXCEPT !.mounted = FALSE]
    /\ UNCHANGED <<explorerVars, searchVars, apiCache>>

InitAdd ==
    /\ books = InitialBooks
    /\ isRefreshing = FALSE
    /\ query = <<>>
    /\ filters = NoFilters
    /\ view = filteredBooks(books, normalizedQuery(query), filters)
    /\ calls = [c \in Calls |-> IdleCall]
    /\ n = 0
    /\ fetchCount = 0
    /\ renders = 0
    /\ pageFailed = FALSE
    /\ serverBooks = books
    /\ SearchInit
    /\ addPage = AddBookPageInit
    /\ apiCache = APICacheInit

NextAdd ==
    \/ \E name \in FieldNames, value \in FieldInputs : ChangeField(name, value)
    \/ \E file \in Files : SelectFile(file)
    \/ \E url \in UploadedUrls : UploadResolves(url)
    \/ UploadRejects
    \/ RemoveImage
    \/ PreviewFails
    \/ PreviewLoads
    \/ HandleSubmit
    \/ \E status \in {200, 400, 500} : PutBookInDB(status)
    \/ PutResolves
    \/ PutRejects
    \/ GoBack

SpecAdd == InitAdd /\ [][NextAdd]_vars

----------------------------------------------------------------------------
(* The API cache at work: callers start get calls, their fetchers answer,  *)
(* entries are invalidated and time passes.  The exported instance is      *)
(* built without options; the class takes any.                             *)

CacheKeys == {<<1, 3>>, <<1, 5>>, <<7>>}

CacheValues == {JsUndefined, JsNumber(0), JsNumber(7), JsString("")}

CacheOptions == {NoOptions, [max |-> <<2>>, ttl |-> <<>>]}

GetTtls == {<<>>, <<CacheTickMs>>}

Patterns == {<<>>, <<<<>>>>, <<<<1>>>>, <<<<7>>>>}

\* get, lines 18-24: the synchronous part.  A truthy cached value is
\* returned; otherwise the fetcher is invoked and awaited.
GetStarts(c, key, ttl) ==
    LET r == LruGet(apiCache.entries, key)
    IN /\ apiCache.gets[c].pc = "idle"
       /\ apiCache' =
            [apiCache EXCEPT
               !.entries = r.entries,
               !.gets[c] = IF ToBoolean(r.value)
                           THEN [pc |-> "resolved", key |-> key, ttl |-> ttl,
                                 result |-> r.value, invoked |-> FALSE]
                           ELSE [pc |-> "fetching", key |-> key, ttl |-> ttl,
                                 result |-> JsUndefined, invoked |-> TRUE]]
       /\ UNCHANGED <<explorerVars, searchVars, addPage>>

\* get, lines 26-28: the fetcher has resolved with data
FetcherResolves(c, data) ==
    /\ apiCache.gets[c].pc = "fetching"
    /\ apiCache' =
         [apiCache EXCEPT
            !.entries = LruSet(apiCache, apiCache.gets[c].key, data, apiCache.gets[c].ttl),
            !.gets[c].pc = "resolved",
            !.gets[c].result = data]
    /\ UNCHANGED <<explorerVars, searchVars, addPage>>

\* get, line 26: the fetcher has rejected, and so does get
FetcherRejects(c) ==
    /\ apiCache.gets[c].pc = "fetching"
    /\ apiCache' = [apiCache EXCEPT !.gets[c].pc = "rejected"]
    /\ UNCHANGED <<explorerVars, searchVars, addPage>>

\* The caller has consumed the settled promise
GetReturns(c) ==
    /\ apiCache.gets[c].pc \in {"resolved", "rejected"}
    /\ apiCache' = [apiCache EXCEPT !.gets[c] = IdleGet]
    /\ UNCHANGED <<explorerVars, searchVars, addPage>>

\* invalidate, lines 31-42
Invalidate(pattern) ==
    /\ apiCache.entries # <<>>
    /\ apiCache' = [apiCache EXCEPT !.entries = Invalidated(@, pattern)]
    /\ UNCHANGED <<explorerVars, searchVars, addPage>>

\* Time passes
CacheTick ==
    /\ Aged(apiCache.entries, CacheTickMs) # apiCache.entries
    /\ apiCache' = [apiCache EXCEPT !.entries = Aged(@, CacheTickMs)]
    /\ UNCHANGED <<explorerVars, searchVars, addPage>>

InitCache ==
    /\ books = InitialBooks
    /\ isRefreshing = FALSE
    /\ query = <<>>
    /\ filters = NoFilters
    /\ view = filteredBooks(books, normalizedQuery(query), filters)
    /\ calls = [c \in Calls |-> IdleCall]
    /\ n = 0
    /\ fetchCount = 0
    /\ renders = 0
    /\ pageFailed = FALSE
    /\ serverBooks = books
    /\ SearchInit
    /\ addPage = AddBookPageInit
    /\ apiCache \in {NewAPICache(options) : options \in CacheOptions}

NextCache ==
    \/ \E c \in GetSlots, key \in CacheKeys, ttl \in GetTtls : GetStarts(c, key, ttl)
    \/ \E c \in GetSlots, data \in CacheValues : FetcherResolves(c, data)
    \/ \E c \in GetSlots : FetcherRejects(c)
    \/ \E c \in GetSlots : GetReturns(c)
    \/ \E pattern \in Patterns : Invalidate(pattern)
    \/ CacheTick

SpecCache == InitCache /\ [][NextCache]_vars

----------------------------------------------------------------------------
(* Properties                                                              *)

\* C1 (as claimed): while the remote delete of a call of the mounted
\* controller is pending, the record it deletes is never in the collection,
\* under every interleaving.
C1_AbsentWhilePending ==
    \A c \in Calls : (DeletePending(c) /\ Mounted(c)) => ~HasId(books, calls[c].id)

\* C1 (amended): the optimistic removal is applied with the invocation, and
\* the record stays out of the collection while its remote delete is pending
\* for as long as no other call's rollback or reconciliation, and no list
\* handed by the page, has replaced the collection since the invocation.
C1_AbsentUntilReplaced ==
    \A c \in Calls :
        (DeletePending(c) /\ Mounted(c) /\ ~calls[c].disturbed)
            => ~HasId(books, calls[c].id)

C1_Witness ==
    \E c, d \in Calls :
        /\ c # d /\ DeletePending(c) /\ InFlight(d)
        /\ Mounted(c) /\ ~calls[c].disturbed
        /\ HasId(calls[c].invoked, calls[c].id)
        /\ ~HasId(books, calls[c].id)

\* C2: when a delete of the mounted controller that overlaps no other delete
\* is rejected (failure result or exception), the collection is again the
\* collection of the moment of its invocation, same records in the same
\* order.
C2_FailedDeleteRestoresSnapshot ==
    [][\A c \in Calls :
          (/\ calls[c].pc = "answered" /\ calls'[c].pc = "rejected"
           /\ ~calls[c].overlapped /\ Mounted(c))
              => books' = calls[c].invoked]_vars

C2_Witness ==
    \E c \in Calls :
        /\ calls[c].pc = "rejected" /\ ~calls[c].overlapped /\ n = c
        /\ Mounted(c)
        /\ calls[c].result.thrown = ""
        /\ HasId(books, calls[c].id)
        /\ books = calls[c].invoked

\* C3: when a delete of the mounted controller that overlaps no other delete
\* succeeds and its reconciliation fetch succeeds with a list L, the
\* collection is L when the call completes.
C3_ReconciliationReplaces ==
    [][\A c \in Calls :
          (/\ calls[c].pc = "fetched" /\ calls'[c].pc # "fetched"
           /\ ~calls[c].overlapped /\ Mounted(c)
           /\ calls[c].response.status = "ok")
              => books' = calls[c].response.data]_vars

C3_Witness ==
    \E c \in Calls :
        /\ calls[c].pc = "resolved" /\ ~calls[c].overlapped /\ n = c
        /\ Mounted(c)
        /\ calls[c].response.status = "ok"
        /\ books = calls[c].response.data
        /\ books # OptimisticRemove(calls[c].invoked, calls[c].id)

\* C4: when the reconciliation fetch fails (status not ok, or exception) the
\* collection is left as it is (the optimistic value, for a delete that
\* overlaps no other and during which the page has handed no other list),
\* isRefreshing becomes false in the controller that runs the call, and
\* the call resolves without an error.
C4_ReconciliationFailureIsSwallowed ==
    [][\A c \in Calls :
          (/\ calls[c].pc = "fetched" /\ calls'[c].pc # "fetched"
           /\ calls[c].response.status # "ok")
              => /\ books' = books
                 /\ (~calls[c].overlapped /\ calls[c].rendersBefore = renders =>
                        books' = OptimisticRemove(calls[c].invoked, calls[c].id))
                 /\ (Mounted(c) => ~isRefreshing')
                 /\ calls'[c].pc = "resolved"
                 /\ calls'[c].error = ""]_vars

C4_Witness ==
    \E c \in Calls :
        /\ calls[c].pc = "resolved" /\ n = c
        /\ Mounted(c)
        /\ calls[c].response.status = "error"
        /\ books = OptimisticRemove(calls[c].invoked, calls[c].id)
        /\ books # calls[c].invoked
        /\ ~isRefreshing

\* C5 (as claimed): a rejected delete carries the reason the store's delete
\* reported.
C5_RejectionCarriesStoreReason ==
    \A c \in Calls :
        (calls[c].pc = "rejected" /\ calls[c].storeReason # "")
            => calls[c].error = calls[c].storeReason

\* C6: isRefreshing is true only while a reconciliation fetch of the mounted
\* controller is in flight;
\* whenever none is in flight (initially, during the optimistic removal and
\* the remote delete, after a fetch ended in any way) it is false.
C6_RefreshingOnlyDuringFetch ==
    isRefreshing => \E c \in Calls : FetchInFlight(c) /\ Mounted(c)

C6_Witness ==
    /\ ~isRefreshing
    /\ \E c \in Calls : /\ calls[c].pc = "resolved" /\ Mounted(c)
                        /\ calls[c].response.status = "throw"
    /\ \A c \in Calls : ~FetchInFlight(c)

\* C7: one call changes the value of the collection at most twice, and never
\* both rolls back and applies a reconciliation.
C7_AtMostTwoChanges ==
    \A c \in Calls :
        /\ calls[c].changes <= 2
        /\ ~(calls[c].rolledBack /\ calls[c].reconciled)

C7_Witness ==
    \E c \in Calls :
        /\ calls[c].pc = "resolved" /\ calls[c].reconciled
        /\ calls[c].changes = 2

\* C8: when delete A of the mounted controller is rejected after a later
\* delete B removed its record, the rollback sets the collection to A's
\* snapshot of the whole collection, so B's record is in the collection
\* again, whatever the state of B's delete.
C8_RollbackRestoresWholeSnapshot ==
    [][\A a, b \in Calls :
          (/\ a < b /\ calls[b].pc # "idle"
           /\ Mounted(a)
           /\ calls[a].pc = "answered" /\ calls'[a].pc = "rejected"
           /\ HasId(calls[a].invoked, calls[b].id))
              => /\ books' = calls[a].invoked
                 /\ HasId(books', calls[b].id)]_vars

C8_Witness ==
    \E a, b \in Calls :
        /\ a < b
        /\ Mounted(a)
        /\ calls[a].pc = "rejected"
        /\ DeletePending(b)
        /\ books = calls[a].invoked
        /\ HasId(books, calls[b].id)

\* C9: a reconciliation response is applied whenever it arrives in the
\* mounted controller: a fetch that started before another and resolves
\* after it overwrites the newer data.
C9_LateFetchOverwrites ==
    [][\A c, d \in Calls :
          (/\ c # d
           /\ Mounted(c)
           /\ calls[c].pc = "fetched" /\ calls'[c].pc = "resolved"
           /\ calls[c].response.status = "ok"
           /\ calls[d].pc = "resolved" /\ calls[d].response.status = "ok"
           /\ calls[c].fetchSeq < calls[d].fetchSeq)
              => books' = calls[c].response.data]_vars

\* ... and the collection then shows a record the store no longer has.
C9_Witness ==
    \E c, d \in Calls :
        /\ calls[c].pc = "resolved" /\ calls[d].pc = "resolved"
        /\ Mounted(c) /\ Mounted(d)
        /\ calls[c].response.status = "ok" /\ calls[d].response.status = "ok"
        /\ calls[c].fetchSeq < calls[d].fetchSeq
        /\ books = calls[c].response.data
        /\ books # calls[d].response.data
        /\ HasId(books, calls[d].id)
        /\ ~HasId(serverBooks, calls[d].id)

\* C10 (as claimed): with an empty query spec the view holds all records of
\* the collection in title-ascending order, equal titles in their original
\* order.
C10_EmptySpecIsTitleAscending ==
    (normalizedQuery(query) = <<>> /\ filters = NoFilters)
        => view = Sort(books, "title", "asc")

\* C11: with no structured filter set, the view holds exactly the records of
\* the collection, in the collection's order, whose title, author and isbn
\* (a missing isbn being empty), joined by single spaces, contain the search
\* term, where the term is the query without its leading and trailing spaces
\* and letters match whatever their case; a query of spaces only keeps every
\* record.  With structured filters set every record of the view still
\* contains the term.
C11_TextFilter ==
    LET letters == {i \in 1..Len(query) : query[i] # 0}
        first == CHOOSE i \in letters : \A k \in letters : i <= k
        last == CHOOSE i \in letters : \A k \in letters : i >= k
        term == IF letters = {} THEN <<>> ELSE [i \in 1..(last - first + 1) |-> query[first + i - 1]]
        sameLetter(c, d) == (c + 1) \div 2 = (d + 1) \div 2
        text(b) == b.title \o <<0>> \o b.author \o <<0>>
                       \o (IF b.isbn = None THEN <<>> ELSE b.isbn[1])
        matches(b) ==
            \E at \in 0..Len(text(b)) :
                /\ at + Len(term) <= Len(text(b))
                /\ \A k \in 1..Len(term) : sameLetter(text(b)[at + k], term[k])
    IN /\ filters = NoFilters => view = SelectSeq(books, matches)
       /\ \A i \in 1..Len(view) : matches(view[i])

\* A term with an inner space and a capital, typed with nothing else set,
\* found across the end of a title and the start of an author; another
\* record is dropped.
C11_Witness ==
    /\ filters = NoFilters
    /\ query = <<1, 0, 2>>
    /\ \E i \in 1..Len(view) : view[i].title = <<3, 1>> /\ view[i].author = <<2, 5>>
    /\ Len(view) < Len(books)

C13_SortIsStable ==
    LET pos(b) == CHOOSE i \in 1..Len(books) : books[i].id = b.id
        key(b) ==
            CASE filters.sortBy = "author" -> b.author
              [] filters.sortBy = "price" -> b.price
              [] filters.sortBy = "rating" -> (IF b.rating = None THEN 0 ELSE b.rating[1])
              [] filters.sortBy = "date" ->
                    (IF b.publishedDate # None /\ b.publishedDate[1].kind = "iso"
                     THEN b.publishedDate[1].ts ELSE 0)
              [] OTHER -> b.title
    IN filters.sortBy # "" =>
           \A i, j \in 1..Len(view) :
               (i < j /\ key(view[i]) = key(view[j])) => pos(view[i]) < pos(view[j])

\* C14 (as claimed): under the date sort, in a collection whose dates are
\* all missing or valid, every record without a date stands before every
\* record with a valid date when the order is ascending, and after every
\* one of them when it is descending.
C14_MissingDateSortsFirst ==
    (/\ filters.sortBy = "date"
     /\ filters.sortOrder \in {"asc", "desc"}
     /\ \A k \in 1..Len(books) : ~DateIsNaN(books[k].publishedDate))
        => \A i, j \in 1..Len(view) :
               (view[i].publishedDate = None /\ view[j].publishedDate # None)
                   => IF filters.sortOrder = "asc" THEN i < j ELSE j < i

\* C15 (as claimed): under the date sort the view has the order it would
\* have if every unparsable date of the collection were a missing one.
C15_UnparsableDateSortsAsMissing ==
    LET asMissing(b) ==
            IF b.publishedDate # None /\ b.publishedDate[1].kind = "text"
            THEN [b EXCEPT !.publishedDate = None] ELSE b
        expected ==
            filteredBooks([k \in 1..Len(books) |-> asMissing(books[k])],
                          normalizedQuery(query), filters)
    IN filters.sortBy = "date" =>
           [k \in 1..Len(view) |-> view[k].id]
               = [k \in 1..Len(expected) |-> expected[k].id]

\* C16: with a genre set in the filters, every record of the view has a
\* genre that equals it letter by letter whatever the case; when the genre is
\* the only filter and the query is blank, the view holds exactly those
\* records of the collection, and so none without a genre.
C16_GenreFilter ==
    LET sameLetter(c, d) == (c + 1) \div 2 = (d + 1) \div 2
        matches(b) ==
            /\ b.genre # None
            /\ Len(b.genre[1]) = Len(filters.genre)
            /\ \A k \in 1..Len(filters.genre) : sameLetter(b.genre[1][k], filters.genre[k])
    IN filters.genre # <<>> =>
           /\ \A i \in 1..Len(view) : matches(view[i])
           /\ (/\ filters.priceRange = <<>> /\ filters.rating = 0
               /\ \A i \in 1..Len(query) : query[i] = 0)
                  => Ids(view) = {books[k].id : k \in {i \in 1..Len(books) : matches(books[i])}}

\* The genre "aA" keeps a record of genre "Aa" and drops one of another
\* genre and one without a genre.
C16_Witness ==
    /\ filters.genre = <<1, 2>>
    /\ \E i \in 1..Len(view) : view[i].genre = Some(<<2, 1>>)
    /\ \E i \in 1..Len(books) : books[i].genre = None /\ ~HasId(view, books[i].id)
    /\ \E i \in 1..Len(books) : books[i].genre = Some(<<3>>) /\ ~HasId(view, books[i].id)

\* C17: with a rating threshold set, every record of the view has a rating,
\* taken as 0 when missing, at or above the threshold; when the threshold is
\* the only filter and the query is blank, the view holds exactly those
\* records of the collection.
C17_RatingThreshold ==
    LET rated(b) == IF b.rating = None THEN 0 ELSE b.rating[1]
    IN filters.rating # 0 =>
           /\ \A i \in 1..Len(view) : rated(view[i]) >= filters.rating
           /\ (/\ filters.priceRange = <<>> /\ filters.genre = <<>>
               /\ \A i \in 1..Len(query) : query[i] = 0)
                  => Ids(view) = {books[k].id : k \in
                                     {i \in 1..Len(books) : rated(books[i]) >= filters.rating}}

\* The threshold 4 keeps a record rated exactly 4 and drops an unrated
\* record and one rated 2.
C17_Witness ==
    /\ filters.rating = 4
    /\ \E i \in 1..Len(view) : view[i].rating = Some(4)
    /\ \E i \in 1..Len(books) : books[i].rating = None /\ ~HasId(view, books[i].id)
    /\ \E i \in 1..Len(books) : books[i].rating = Some(2) /\ ~HasId(view, books[i].id)

\* C19: the controller's query changes only in a step taken when the search
\* input has been unchanged for the whole debounce delay, and it then
\* becomes the input's current text: a change of the input never reaches
\* the controller by itself, and a text that was typed over never does.
C19_DebounceCollapse ==
    [][query' # query =>
          /\ quiet = DebounceDelay
          /\ searchQuery' = searchQuery
          /\ query' = searchQuery]_vars

\* Three changes of the input within one debounce window, after which the
\* controller's query is the last text typed.
C19_Witness ==
    /\ burst >= 3
    /\ timer = NoTimer
    /\ searchQuery = <<3, 1>>
    /\ debouncedSearch = searchQuery
    /\ query = searchQuery
    /\ \A i \in 1..Len(view) : includes(haystack(view[i]), query)
    /\ Len(view) < Len(books)

\* C20 (as claimed): the step in which a sort option is picked leaves the
\* controller's filters equal to the filters before it with sortBy and
\* sortOrder set to the option's, and the view derived from these.
C20_SortPickTakesEffect ==
    [][picked' # NoPick =>
          /\ filters' = [filters EXCEPT !.sortBy = picked'[1], !.sortOrder = picked'[2]]
          /\ view' = filteredBooks(books, normalizedQuery(query), filters')]_vars

\* C21: no derivation of the view changes the collection: whatever query or
\* filters (sort included) a step applies, the collection holds the same
\* records in the same order after the step as before it.
C21_DerivationKeepsCollection == [][books' = books]_vars

\* A sort applied to the whole collection (no filter stage ran), giving a
\* view in another order than the collection's.
C21_Witness ==
    /\ filters.sortBy = "price" /\ filters.sortOrder = "desc"
    /\ filters.genre = <<>> /\ filters.priceRange = <<>> /\ filters.rating = 0
    /\ normalizedQuery(query) = <<>>
    /\ Len(view) = Len(books)
    /\ view # books
    /\ view = Sort(books, "price", "desc")

C23_UniqueIds ==
    (/\ Cardinality(Ids(InitialBooks)) = Len(InitialBooks)
     /\ Cardinality(Ids(serverBooks)) = Len(serverBooks))
        => Cardinality(Ids(books)) = Len(books)

\* One delete was rolled back and an overlapping one was reconciled, and the
\* collection still holds several records.
C23_Witness ==
    /\ \E c, d \in Calls :
          /\ calls[c].rolledBack /\ calls[c].overlapped
          /\ calls[d].reconciled /\ calls[d].overlapped
    /\ Len(books) >= 2
    /\ Cardinality(Ids(books)) = Len(books)

\* C24 (as claimed): once no call is in flight, every record whose remote
\* delete failed in the mounted controller, and was not deleted by another
\* call, is in the collection.
C24_FailedDeleteStaysVisible ==
    (\A c \in Calls : ~InFlight(c))
        => \A c \in Calls :
               (/\ calls[c].pc = "rejected" /\ Mounted(c)
                /\ ~\E d \in Calls : /\ calls[d].id = calls[c].id
                                     /\ calls[d].result.thrown = ""
                                     /\ calls[d].result.success)
                   => HasId(books, calls[c].id)

\* C25 (as claimed): whenever the reconciliation fetch of some call of the
\* mounted controller is in flight, isRefreshing is true.
C25_RefreshingWhileFetching ==
    (\E c \in Calls : FetchInFlight(c) /\ Mounted(c)) => isRefreshing

\* C26 (as claimed): while the remote delete of a record is pending in the
\* mounted controller, the grid has no enabled delete control for that
\* record, and no second remote delete of it is pending.
C26_OneDeletePerRecord ==
    \A c \in Calls :
        (DeletePending(c) /\ Mounted(c)) =>
            /\ ~DeleteEnabled(calls[c].id)
            /\ \A d \in Calls \ {c} : ~(DeletePending(d) /\ calls[d].id = calls[c].id)

\* C27: when every remote delete and every reconciliation fetch is answered,
\* every state with a call in flight is followed by a state in which every
\* call that was invoked has resolved or rejected and isRefreshing is false:
\* no call stays pending, and the controller is idle again.
C27_CallsComplete ==
    (\E c \in Calls : InFlight(c))
        ~> ((\A c \in Calls : calls[c].pc \in {"idle", "resolved", "rejected"})
            /\ ~isRefreshing)

\* Two overlapping calls are over, one resolved after its reconciliation and
\* one rejected, and the controller is idle again.
C27_Witness ==
    /\ \E c, d \in Calls :
          /\ calls[c].pc = "resolved" /\ calls[c].overlapped
          /\ calls[d].pc = "rejected" /\ calls[d].overlapped
    /\ \A c \in Calls : ~InFlight(c)
    /\ ~isRefreshing

\* C28 (as claimed): the step in which the first price bound is entered in
\* the panel, with no other filter set and no search term, leaves in the
\* view exactly the records with price >= min when the bound is a minimum,
\* and exactly the records with price <= max when it is a maximum.
C28_UnenteredBoundNotApplied ==
    [][(/\ panelFilters.priceRange = <<>>
        /\ panelFilters'.priceRange # <<>>
        /\ filters'.genre = <<>> /\ filters'.rating = 0
        /\ normalizedQuery(query') = <<>>)
          => LET r == panelFilters'.priceRange
                 kept == IF r[1] # 0
                         THEN {i \in 1..Len(books) : books[i].price >= r[1]}
                         ELSE {i \in 1..Len(books) : books[i].price <= r[2]}
             IN Ids(view') = {books[i].id : i \in kept}]_vars

\* C29 (as claimed): while a cover upload is in flight the form is disabled
\* (inputs and submit button) as long as the page is shown, and no
\* submission is under way, so that no record is written before the upload
\* has answered.
C29_FormDisabledDuringUpload ==
    addPage.upload # NoUpload =>
        /\ addPage.mounted => isFormDisabled(addPage)
        /\ addPage.put = NoPut

\* C30: a get issued while the cache holds a live entry for its key (stored
\* by an earlier get that resolved with that value, not yet expired, evicted
\* or invalidated) resolves with the stored value and does not invoke its
\* fetcher.  A stored value that is falsy is fetched again, so this fails.
C30_GetServesStored ==
    [][\A c \in GetSlots :
         LET i == IndexOfKey(apiCache.entries, apiCache'.gets[c].key)
         IN (/\ apiCache.gets[c].pc = "idle"
             /\ apiCache'.gets[c].pc # "idle"
             /\ i # 0
             /\ ~IsStale(apiCache.entries[i]))
            => /\ apiCache'.gets[c].pc = "resolved"
               /\ apiCache'.gets[c].result = apiCache.entries[i].value
               /\ ~apiCache'.gets[c].invoked]_vars

====
